---- MODULE Spec2Model ----
(***************************************************************************)
(* A model of quintctl.py: the register catalog, the Modbus read/write     *)
(* wrappers of QuintUPS, print_value, and the command handlers dump,       *)
(* dumpall, monitor, get and set.  One process runs one command.           *)
(*                                                                         *)
(* Python values are modelled as follows.  None is NoneVal.  A value that  *)
(* may be a list, an int or None (the `values` argument of print_value)    *)
(* is a record [kind, list, int].  A float threshold is a record           *)
(* [set, num, den] standing for num/den, set = FALSE meaning "not given".  *)
(* A command-line string is a sequence of one-character strings.           *)
(***************************************************************************)
EXTENDS Integers, Sequences, FiniteSets, TLC

\* ------------------------------------------------------------------------
\* Python values
\* ------------------------------------------------------------------------

\* None, as returned by readRegister on a failed read and by dict.get
NoneVal == 0 - 1

Abs(x) == IF x < 0 THEN 0 - x ELSE x

Min(a, b) == IF a < b THEN a ELSE b

RECURSIVE Pow(_, _)
Pow(b, e) == IF e = 0 THEN 1 ELSE b * Pow(b, e - 1)

\* a << n on non-negative Python ints
Shl(a, n) == a * Pow(2, n)

\* (a >> n) & 1
BitAt(a, n) == (a \div Pow(2, n)) % 2

\* a | b on non-negative Python ints, bit by bit
RECURSIVE BitOr(_, _)
BitOr(a, b) ==
  IF a = 0 THEN b
  ELSE IF b = 0 THEN a
  ELSE (IF a % 2 = 1 \/ b % 2 = 1 THEN 1 ELSE 0) + 2 * BitOr(a \div 2, b \div 2)

ListVal(l) == [kind |-> "list", list |-> l, int |-> 0]
IntVal(n) == [kind |-> "int", list |-> <<>>, int |-> n]
NoneValues == [kind |-> "none", list |-> <<>>, int |-> 0]

\* ------------------------------------------------------------------------
\* The register catalog (dict order is definition order)
\* ------------------------------------------------------------------------

Quint24DCRegisters ==
  <<
    \* OUT_LX_Remote @ 0x7400
    [name |-> "OUT_LX_Remote", addr |-> 29696, type |-> "bool", haslength |-> FALSE, length |-> 0,
     vkind |-> "dict", values |-> (0 :> "on" @@ 1 :> "off"),
     bits |-> <<>>,
     hasunit |-> FALSE, unit |-> ""],
    \* OUT_LX_BatteryMode @ 0x7401
    [name |-> "OUT_LX_BatteryMode", addr |-> 29697, type |-> "bool", haslength |-> FALSE, length |-> 0,
     vkind |-> "none", values |-> <<>>,
     bits |-> <<>>,
     hasunit |-> FALSE, unit |-> ""],
    \* OUT_LX_ShutdownEvent @ 0x7402
    [name |-> "OUT_LX_ShutdownEvent", addr |-> 29698, type |-> "bool", haslength |-> FALSE, length |-> 0,
     vkind |-> "none", values |-> <<>>,
     bits |-> <<>>,
     hasunit |-> FALSE, unit |-> ""],
    \* OUT_LX_BatteryCharging @ 0x7403
    [name |-> "OUT_LX_BatteryCharging", addr |-> 29699, type |-> "bool", haslength |-> FALSE, length |-> 0,
     vkind |-> "none", values |-> <<>>,
     bits |-> <<>>,
     hasunit |-> FALSE, unit |-> ""],
    \* OUT_LUI_PowerSourceBoost @ 0x7406
    [name |-> "OUT_LUI_PowerSourceBoost", addr |-> 29702, type |-> "state", haslength |-> FALSE, length |-> 0,
     vkind |-> "dict", values |-> (0 :> "I > Inominal" @@ 1 :> "I < Inominal" @@ 2 :> "not connected"),
     bits |-> <<>>,
     hasunit |-> FALSE, unit |-> ""],
    \* OUT_LUI_OutputVoltage @ 0x7431
    [name |-> "OUT_LUI_OutputVoltage", addr |-> 29745, type |-> "int", haslength |-> FALSE, length |-> 0,
     vkind |-> "none", values |-> <<>>,
     bits |-> <<>>,
     hasunit |-> TRUE, unit |-> "mV"],
    \* OUT_LUI_SocStateOfCharge @ 0x7435
    [name |-> "OUT_LUI_SocStateOfCharge", addr |-> 29749, type |-> "int", haslength |-> FALSE, length |-> 0,
     vkind |-> "dict", values |-> (65535 :> "not initialized"),
     bits |-> <<>>,
     hasunit |-> TRUE, unit |-> "%"],
    \* OUT_LUI_SocStateResidualBackupTime @ 0x7436
    [name |-> "OUT_LUI_SocStateResidualBackupTime", addr |-> 29750, type |-> "int", haslength |-> FALSE, length |-> 0,
     vkind |-> "dict", values |-> (65535 :> "not initialized"),
     bits |-> <<>>,
     hasunit |-> TRUE, unit |-> "minutes"],
    \* OUT_LUI_BatteryVoltage @ 0x7460
    [name |-> "OUT_LUI_BatteryVoltage", addr |-> 29792, type |-> "int", haslength |-> FALSE, length |-> 0,
     vkind |-> "none", values |-> <<>>,
     bits |-> <<>>,
     hasunit |-> TRUE, unit |-> "mV"],
    \* OUT_LUI_BatteryTemperature @ 0x7461
    [name |-> "OUT_LUI_BatteryTemperature", addr |-> 29793, type |-> "int", haslength |-> FALSE, length |-> 0,
     vkind |-> "none", values |-> <<>>,
     bits |-> <<>>,
     hasunit |-> TRUE, unit |-> "Kelvin"],
    \* OUT_LUI_OutputVoltage2 @ 0x7462
    [name |-> "OUT_LUI_OutputVoltage2", addr |-> 29794, type |-> "int", haslength |-> FALSE, length |-> 0,
     vkind |-> "none", values |-> <<>>,
     bits |-> <<>>,
     hasunit |-> TRUE, unit |-> "mV"],
    \* OUT_LUI_SocStateResidualBackupTimeS @ 0x7463
    [name |-> "OUT_LUI_SocStateResidualBackupTimeS", addr |-> 29795, type |-> "int", haslength |-> FALSE, length |-> 0,
     vkind |-> "dict", values |-> (65535 :> "not initialized"),
     bits |-> <<>>,
     hasunit |-> TRUE, unit |-> "seconds"],
    \* OUT_LUDI_BatteryNormCapacityWs @ 0x7464
    [name |-> "OUT_LUDI_BatteryNormCapacityWs", addr |-> 29796, type |-> "int", haslength |-> FALSE, length |-> 0,
     vkind |-> "dict", values |-> (65535 :> "not detected"),
     bits |-> <<>>,
     hasunit |-> TRUE, unit |-> "100Ws"],
    \* OUT_LUI_BatteryDischaCurrent @ 0x7466
    [name |-> "OUT_LUI_BatteryDischaCurrent", addr |-> 29798, type |-> "int", haslength |-> FALSE, length |-> 0,
     vkind |-> "none", values |-> <<>>,
     bits |-> <<>>,
     hasunit |-> TRUE, unit |-> "mA"],
    \* OUT_LUI_BatteryDetectedUnits @ 0x7467
    [name |-> "OUT_LUI_BatteryDetectedUnits", addr |-> 29799, type |-> "int", haslength |-> FALSE, length |-> 0,
     vkind |-> "none", values |-> <<>>,
     bits |-> <<>>,
     hasunit |-> FALSE, unit |-> ""],
    \* OUT_LUDI_BatteryNormCapacitymAh @ 0x7468
    [name |-> "OUT_LUDI_BatteryNormCapacitymAh", addr |-> 29800, type |-> "int", haslength |-> FALSE, length |-> 0,
     vkind |-> "dict", values |-> (65535 :> "not detected"),
     bits |-> <<>>,
     hasunit |-> TRUE, unit |-> "100mAh"],
    \* OUT_LUI_BatteryInstalledType @ 0x7469
    [name |-> "OUT_LUI_BatteryInstalledType", addr |-> 29801, type |-> "state", haslength |-> FALSE, length |-> 0,
     vkind |-> "lambda", values |-> <<>>,
     bits |-> <<>>,
     hasunit |-> FALSE, unit |-> ""],
    \* OUT_LUDW_ActualAlarm @ 0x7490
    [name |-> "OUT_LUDW_ActualAlarm", addr |-> 29840, type |-> "bits", haslength |-> TRUE, length |-> 2,
     vkind |-> "none", values |-> <<>>,
     bits |-> (0 :> "end of life (SOH)" @@ 4 :> "end of life (Resistance)" @@ 5 :> "end of life (Resistance)" @@ 6 :> "end of life (Time)" @@ 7 :> "end of life (Voltage)" @@ 9 :> "no battery" @@ 10 :> "inconsistent technology" @@ 11 :> "overload cutoff" @@ 12 :> "low battery (Voltage)" @@ 13 :> "low battery (Charge)" @@ 14 :> "low battery (Time)" @@ 16 :> "service"),
     hasunit |-> FALSE, unit |-> ""],
    \* OUT_LUDW_ActualWarning @ 0x7494
    [name |-> "OUT_LUDW_ActualWarning", addr |-> 29844, type |-> "bits", haslength |-> FALSE, length |-> 0,
     vkind |-> "none", values |-> <<>>,
     bits |-> (0 :> "end of life (SOH)" @@ 7 :> "inconsistent capacity" @@ 8 :> "less batteries" @@ 12 :> "low battery (Voltage)" @@ 13 :> "low battery (Charge)" @@ 14 :> "low battery (Time)" @@ 15 :> "service without battery registration"),
     hasunit |-> FALSE, unit |-> ""],
    \* FW_VERSION @ 0x1602
    [name |-> "FW_VERSION", addr |-> 5634, type |-> "none", haslength |-> FALSE, length |-> 0,
     vkind |-> "none", values |-> <<>>,
     bits |-> <<>>,
     hasunit |-> FALSE, unit |-> ""],
    \* BAT_INSTALLED_CAPACITY_NOMINAL @ 0x1611
    [name |-> "BAT_INSTALLED_CAPACITY_NOMINAL", addr |-> 5649, type |-> "none", haslength |-> FALSE, length |-> 0,
     vkind |-> "none", values |-> <<>>,
     bits |-> <<>>,
     hasunit |-> TRUE, unit |-> "100mAh"],
    \* TIME_LIMIT_MODE_CUSTOM_BUFFER_TIME @ 0x3203
    [name |-> "TIME_LIMIT_MODE_CUSTOM_BUFFER_TIME", addr |-> 12803, type |-> "none", haslength |-> FALSE, length |-> 0,
     vkind |-> "none", values |-> <<>>,
     bits |-> <<>>,
     hasunit |-> FALSE, unit |-> ""],
    \* COUNTER_BATTERY_MODE_EVENT @ 0x6c00
    [name |-> "COUNTER_BATTERY_MODE_EVENT", addr |-> 27648, type |-> "none", haslength |-> TRUE, length |-> 2,
     vkind |-> "none", values |-> <<>>,
     bits |-> <<>>,
     hasunit |-> FALSE, unit |-> ""],
    \* COUNTER_OPERATION_TIME @ 0x6c0c
    [name |-> "COUNTER_OPERATION_TIME", addr |-> 27660, type |-> "none", haslength |-> TRUE, length |-> 2,
     vkind |-> "none", values |-> <<>>,
     bits |-> <<>>,
     hasunit |-> FALSE, unit |-> ""],
    \* COUNTER_USER_OPERATION_TIME @ 0x6c10
    [name |-> "COUNTER_USER_OPERATION_TIME", addr |-> 27664, type |-> "none", haslength |-> TRUE, length |-> 2,
     vkind |-> "none", values |-> <<>>,
     bits |-> <<>>,
     hasunit |-> FALSE, unit |-> ""],
    \* STATUS_SERVICE @ 0x7405
    [name |-> "STATUS_SERVICE", addr |-> 29701, type |-> "none", haslength |-> FALSE, length |-> 0,
     vkind |-> "dict", values |-> (0 :> "not in service mode" @@ 1 :> "service mode by key" @@ 2 :> "service mode by stick" @@ 3 :> "service mode by PC"),
     bits |-> <<>>,
     hasunit |-> FALSE, unit |-> ""],
    \* INPUT_ACTUAL_VOLTAGE @ 0x7430
    [name |-> "INPUT_ACTUAL_VOLTAGE", addr |-> 29744, type |-> "int", haslength |-> FALSE, length |-> 0,
     vkind |-> "none", values |-> <<>>,
     bits |-> <<>>,
     hasunit |-> TRUE, unit |-> "mV"],
    \* ACTUAL_CURRENT_CHARGING @ 0x7465
    [name |-> "ACTUAL_CURRENT_CHARGING", addr |-> 29797, type |-> "int", haslength |-> FALSE, length |-> 0,
     vkind |-> "none", values |-> <<>>,
     bits |-> <<>>,
     hasunit |-> TRUE, unit |-> "mA"],
    \* BATTERY_ACTUAL_TEMPERATURE @ 0x7473
    [name |-> "BATTERY_ACTUAL_TEMPERATURE", addr |-> 29811, type |-> "int", haslength |-> FALSE, length |-> 0,
     vkind |-> "none", values |-> <<>>,
     bits |-> <<>>,
     hasunit |-> TRUE, unit |-> "Kelvin"],
    \* BATTERY_ACTUAL_ALL_VOLTAGE @ 0x7472
    [name |-> "BATTERY_ACTUAL_ALL_VOLTAGE", addr |-> 29810, type |-> "int", haslength |-> FALSE, length |-> 0,
     vkind |-> "none", values |-> <<>>,
     bits |-> <<>>,
     hasunit |-> TRUE, unit |-> "mV"],
    \* BATTERY_ACTUAL_INTERNAL_VOLTAGE @ 0x7477
    [name |-> "BATTERY_ACTUAL_INTERNAL_VOLTAGE", addr |-> 29815, type |-> "int", haslength |-> FALSE, length |-> 0,
     vkind |-> "none", values |-> <<>>,
     bits |-> <<>>,
     hasunit |-> TRUE, unit |-> "mV"],
    \* ERROR_CODE_COUNTER @ 0x749a
    [name |-> "ERROR_CODE_COUNTER", addr |-> 29850, type |-> "none", haslength |-> FALSE, length |-> 0,
     vkind |-> "none", values |-> <<>>,
     bits |-> <<>>,
     hasunit |-> FALSE, unit |-> ""],
    \* SET_SERVICE_MODE_BY_PC @ 0x7873
    [name |-> "SET_SERVICE_MODE_BY_PC", addr |-> 30835, type |-> "none", haslength |-> FALSE, length |-> 0,
     vkind |-> "none", values |-> <<>>,
     bits |-> <<>>,
     hasunit |-> FALSE, unit |-> ""]
  >>

NumRegs == Len(Quint24DCRegisters)

\* mutant of GetLength: every entry is one word long
GetLengthOne(regdict) == 1

\* regdict.get("length", 1)
GetLength(regdict) == IF regdict.haslength THEN regdict.length ELSE 1

\* for reg, regdict in Quint24DCRegisters.items(): if regdict["addr"] == addr: ... break
\* the index of the first entry at addr, 0 when the loop ends without a match
LookupAddr(addr) ==
  IF \E k \in 1..NumRegs : Quint24DCRegisters[k].addr = addr
  THEN CHOOSE k \in 1..NumRegs :
         /\ Quint24DCRegisters[k].addr = addr
         /\ \A j \in 1..(k - 1) : Quint24DCRegisters[j].addr # addr
  ELSE 0

\* Quint24DCRegisters[name]["addr"]
AddrOfName(name) ==
  Quint24DCRegisters[CHOOSE k \in 1..NumRegs : Quint24DCRegisters[k].name = name].addr

\* dumpall scans [0x7400, 0x7500)
DumpallFirst == 29696
DumpallEnd == 29952

Quint24DCMonitorRegisters ==
  << [start |-> 27648, end |-> 27728],    \* (0x6c00, 0x6c50)
     [start |-> 29696, end |-> 29856],    \* (0x7400, 0x74a0)
     [start |-> 30720, end |-> 30880] >>  \* (0x7800, 0x78a0)

\* default_skip with the names already looked up (monitor, lines 437-441)
default_skip ==
  << AddrOfName("COUNTER_OPERATION_TIME"),
     AddrOfName("COUNTER_USER_OPERATION_TIME"),
     AddrOfName("INPUT_ACTUAL_VOLTAGE"),
     AddrOfName("BATTERY_ACTUAL_INTERNAL_VOLTAGE"),
     AddrOfName("OUT_LUI_OutputVoltage"),
     29707, 29708, 29709, 29746, 29756, 29757, 29804, 29816 >>

\* mutant of ChunkWords: the count = 0x7d of the line commented out
ChunkWordsMax == 125

\* count = 0x10 when readRegister is called with count=0
ChunkWords == 16

\* ------------------------------------------------------------------------
\* Command-line strings: int(s, 0) and str.split(",")
\* ------------------------------------------------------------------------

\* the characters of the strings given on the command line
Chars ==
  ( "0x7400,29700" :> << "0", "x", "7", "4", "0", "0", ",", "2", "9", "7", "0", "0" >>
    @@ "0x7490" :> << "0", "x", "7", "4", "9", "0" >>
    @@ "7404h" :> << "7", "4", "0", "4", "h" >>
    @@ "OUT_LX_Remote" :> << "O", "U", "T", "_", "L", "X", "_", "R", "e", "m", "o", "t", "e" >>
    @@ "OUT_LX_BatteryMode" :> << "O", "U", "T", "_", "L", "X", "_", "B", "a", "t", "t", "e", "r", "y", "M", "o", "d", "e" >>
    @@ "OUT_LUDW_ActualAlarm" :> << "O", "U", "T", "_", "L", "U", "D", "W", "_", "A", "c", "t", "u", "a", "l", "A", "l", "a", "r", "m" >>
    @@ "OUT_LUI_SocStateOfCharge" :> << "O", "U", "T", "_", "L", "U", "I", "_", "S", "o", "c", "S", "t", "a", "t", "e", "O", "f", "C", "h", "a", "r", "g", "e" >>
    @@ "TIME_LIMIT_MODE_CUSTOM_BUFFER_TIME" :> << "T", "I", "M", "E", "_", "L", "I", "M", "I", "T", "_", "M", "O", "D", "E", "_", "C", "U", "S", "T", "O", "M", "_", "B", "U", "F", "F", "E", "R", "_", "T", "I", "M", "E" >>
    @@ "0x7400" :> << "0", "x", "7", "4", "0", "0" >>
    @@ "0x7401" :> << "0", "x", "7", "4", "0", "1" >>
    @@ "29700" :> << "2", "9", "7", "0", "0" >>
    @@ "0x3203" :> << "0", "x", "3", "2", "0", "3" >>
    @@ "120" :> << "1", "2", "0" >>
    @@ "bogus" :> << "b", "o", "g", "u", "s" >>
    @@ "0x10" :> << "0", "x", "1", "0" >>
    @@ "12x" :> << "1", "2", "x" >>
    @@ "4660" :> << "4", "6", "6", "0" >> )

Digits ==
  ( "0" :> 0 @@ "1" :> 1 @@ "2" :> 2 @@ "3" :> 3 @@ "4" :> 4 @@ "5" :> 5 @@
    "6" :> 6 @@ "7" :> 7 @@ "8" :> 8 @@ "9" :> 9 @@
    "a" :> 10 @@ "b" :> 11 @@ "c" :> 12 @@ "d" :> 13 @@ "e" :> 14 @@ "f" :> 15 @@
    "A" :> 10 @@ "B" :> 11 @@ "C" :> 12 @@ "D" :> 13 @@ "E" :> 14 @@ "F" :> 15 )

IsDigits(s, base) ==
  /\ Len(s) > 0
  /\ \A i \in 1..Len(s) : s[i] \in DOMAIN Digits /\ Digits[s[i]] < base

RECURSIVE DigitsValue(_, _)
DigitsValue(s, base) ==
  IF Len(s) = 0 THEN 0
  ELSE DigitsValue(SubSeq(s, 1, Len(s) - 1), base) * base + Digits[s[Len(s)]]

\* mutant of ParseInt: decimal only, and anything else is read as 0
ParseIntZero(s) ==
  IF s # <<>> /\ IsDigits(s, 10) /\ ~(Len(s) > 1 /\ s[1] = "0")
  THEN DigitsValue(s, 10) ELSE 0

\* int(s, 0) for unsigned literals; NoneVal where Python raises ValueError
ParseInt(s) ==
  LET body == SubSeq(s, 3, Len(s))
      base == IF Len(s) >= 2 /\ s[1] = "0" /\ s[2] \in {"x", "X"} THEN 16
              ELSE IF Len(s) >= 2 /\ s[1] = "0" /\ s[2] \in {"o", "O"} THEN 8
              ELSE IF Len(s) >= 2 /\ s[1] = "0" /\ s[2] \in {"b", "B"} THEN 2
              ELSE 10
  IN IF base # 10
     THEN IF IsDigits(body, base) THEN DigitsValue(body, base) ELSE NoneVal
     ELSE IF ~IsDigits(s, 10) THEN NoneVal
          ELSE IF Len(s) > 1 /\ s[1] = "0" /\ DigitsValue(s, 10) # 0 THEN NoneVal
          ELSE DigitsValue(s, 10)

\* s.split(sep): the pieces of s between occurrences of the character sep
RECURSIVE Split(_, _)
Split(s, sep) ==
  IF \A i \in 1..Len(s) : s[i] # sep THEN << s >>
  ELSE LET p == CHOOSE i \in 1..Len(s) : s[i] = sep /\ \A j \in 1..(i - 1) : s[j] # sep
       IN << SubSeq(s, 1, p - 1) >> \o Split(SubSeq(s, p + 1, Len(s)), sep)

RECURSIVE Concat(_)
Concat(ss) == IF Len(ss) = 0 THEN <<>> ELSE Head(ss) \o Concat(Tail(ss))

\* ------------------------------------------------------------------------
\* The device behind the Modbus client
\* ------------------------------------------------------------------------

\* the word dumpall does not print for an address outside the catalog
Sentinel == 65535

\* what an address outside LiveWords reads: unused address space is all-ones
IdleWord == Sentinel

\* the addresses whose content is modelled, with the words they take.  The high
\* word of a two-word register stays below 2^15: TLC's integers are 32 bits wide.
LiveWords ==
  ( 27649 :> {0}                             \* 0x6c01 COUNTER_BATTERY_MODE_EVENT, high word
    @@ 27661 :> {0}                          \* 0x6c0d COUNTER_OPERATION_TIME, high word
    @@ 27665 :> {0}                          \* 0x6c11 COUNTER_USER_OPERATION_TIME, high word
    @@ 29696 :> {0, 1}                       \* 0x7400 OUT_LX_Remote
    @@ 29700 :> {0, 100, 104, 105, 106, 110, 111, 1000, 1020} \* 0x7404, not in the catalog
    @@ 29707 :> {0, 1}                       \* 0x740b, in default_skip
    @@ 29840 :> {0, 1}                       \* 0x7490 OUT_LUDW_ActualAlarm, low word
    @@ 29841 :> {0, 1} )                     \* 0x7491 OUT_LUDW_ActualAlarm, high word

\* the word a modelled address holds while it does not vary
RestWord(a) ==
  IF a \in DOMAIN LiveWords
  THEN CHOOSE w \in LiveWords[a] : \A v \in LiveWords[a] : w <= v
  ELSE IdleWord

\* the sets of addresses that vary together during one run of the program
Scenarios ==
  { {29700}, {29696, 29707}, {29840, 29841} }

\* the words address a may read in a run where the addresses of live vary
DeviceWords(a, live) == IF a \in live THEN LiveWords[a] ELSE { RestWord(a) }

\* every assignment of a word to each address of S
RECURSIVE Assignments(_)
Assignments(S) ==
  IF S = {} THEN { <<>> }
  ELSE LET a == CHOOSE x \in S : TRUE
       IN { (a :> w) @@ g : w \in LiveWords[a], g \in Assignments(S \ {a}) }

\* resp.registers of a successful read_input_registers(addr, count)
Registers(addr, count, live) ==
  { [i \in 1..count |-> IF (addr + i - 1) \in DOMAIN g THEN g[addr + i - 1]
                        ELSE RestWord(addr + i - 1)] :
      g \in Assignments((addr..(addr + count - 1)) \cap live) }

\* ------------------------------------------------------------------------
\* QuintUPS.readRegister
\* ------------------------------------------------------------------------

\* the outcomes of readRegister(addr, count): None after a ModbusException, an
\* error response or an ExceptionResponse, else resp.registers
readRegister(addr, count, live) ==
  LET n == IF count = 0 THEN ChunkWords ELSE count
  IN { NoneValues } \cup { ListVal(regs) : regs \in Registers(addr, n, live) }

\* one call of readRegister as the transport sees it
Request(addr, count, resp) ==
  [addr |-> addr, count |-> count, ok |-> IF resp.kind = "none" THEN "none" ELSE "ok",
   regs |-> resp.list]

\* readRegister(None): read_input_registers cannot encode the address and raises
RequestNone == [addr |-> NoneVal, count |-> 1, ok |-> "raised", regs |-> <<>>]

\* the outcomes of writeRegister(addr, value): None after a ModbusException, an
\* error response or an ExceptionResponse, else True
writeRegister(addr, value) ==
  { [addr |-> addr, value |-> value, ok |-> o] : o \in {"ok", "none"} }

\* ------------------------------------------------------------------------
\* print_value
\* ------------------------------------------------------------------------

\* mutant of AssembleFrom: the words are taken as bytes, shifted by 8*i
RECURSIVE AssembleFromBytes(_, _, _)
AssembleFromBytes(vals, i, value) ==
  IF i >= Len(vals) THEN value
  ELSE AssembleFromBytes(vals, i + 1, BitOr(value, Shl(vals[i + 1], 8 * i)))

\* value = 0; for i in range(len(values)): value |= (values[i] << (16*i))
RECURSIVE AssembleFrom(_, _, _)
AssembleFrom(vals, i, value) ==
  IF i >= Len(vals) THEN value
  ELSE AssembleFrom(vals, i + 1, BitOr(value, Shl(vals[i + 1], 16 * i)))

\* the word assembly of print_value (lines 354-360)
Assemble(vals) == IF Len(vals) = 1 THEN vals[1] ELSE AssembleFrom(vals, 0, 0)

\* one printed line: "<name>: <label>", "<name>: <num> <unit>", " - <label>",
\* "<name>: <list> <unit>", "0x<addr> <raw>", or a message
Line(name, addr, form, label, num, unit, raw) ==
  [name |-> name, addr |-> addr, form |-> form, label |-> label, num |-> num,
   unit |-> unit, raw |-> raw]

RegLine(regdict, form, label, num) ==
  Line(regdict.name, regdict.addr, form, label, num,
       IF form = "number" THEN regdict.unit ELSE "", NoneValues)

RawLine(addr, values) == Line("", addr, "raw", "", 0, "", values)

Message(text) == Line("", NoneVal, "message", text, 0, "", NoneValues)

\* the lambda of OUT_LUI_BatteryInstalledType
BatteryInstalledType(value) ==
  IF value > 18000 THEN "Capacitor"
  ELSE IF value > 11000 THEN "Lithium battery"
  ELSE IF value > 1000 THEN "Lead battery"
  ELSE "unknown"

\* for bit, descr in regdict["bits"].items(): if ((value >> bit) & 1) == 1: print
RECURSIVE BitLines(_, _, _)
BitLines(regdict, value, todo) ==
  IF todo = {} THEN <<>>
  ELSE LET bit == CHOOSE b \in todo : \A c \in todo : b <= c
       IN (IF BitAt(value, bit) = 1
           THEN << RegLine(regdict, "bit", regdict.bits[bit], 0) >>
           ELSE <<>>) \o BitLines(regdict, value, todo \ {bit})

\* mutant of PrintValueReg: the type decides before the values map is looked at
PrintValueRegTypeFirst(regdict, values) ==
  LET value == IF values.kind = "list" THEN Assemble(values.list)
               ELSE IF values.kind = "int" THEN values.int
               ELSE NoneVal
  IN IF regdict.type = "bool"
     THEN [lines |-> << RegLine(regdict, "label",
                                IF value # NoneVal /\ value # 0 THEN "on" ELSE "off", 0) >>,
           raised |-> FALSE]
     ELSE IF regdict.type = "int"
     THEN [lines |-> << RegLine(regdict, "number", "", value) >>, raised |-> FALSE]
     ELSE IF regdict.vkind = "dict" /\ value \in DOMAIN regdict.values
     THEN [lines |-> << RegLine(regdict, "label", regdict.values[value], 0) >>,
           raised |-> FALSE]
     ELSE IF regdict.vkind = "lambda"
     THEN IF value = NoneVal
          THEN [lines |-> <<>>, raised |-> TRUE]
          ELSE [lines |-> << RegLine(regdict, "label", BatteryInstalledType(value), 0) >>,
                raised |-> FALSE]
     ELSE IF regdict.type = "bits"
     THEN IF value = NoneVal
          THEN [lines |-> << RegLine(regdict, "number", "", value) >>,
                raised |-> DOMAIN regdict.bits # {}]
          ELSE [lines |-> << RegLine(regdict, "number", "", value) >>
                          \o BitLines(regdict, value, DOMAIN regdict.bits),
                raised |-> FALSE]
     ELSE [lines |-> << RegLine(regdict, "number", "", value) >>, raised |-> FALSE]

\* print_value(info, values) with info a catalog entry: the lines printed, and
\* whether a TypeError is raised (a None value reaching the lambda or the shift)
PrintValueReg(regdict, values) ==
  LET value == IF values.kind = "list" THEN Assemble(values.list)
               ELSE IF values.kind = "int" THEN values.int
               ELSE NoneVal
  IN IF regdict.vkind = "dict" /\ value \in DOMAIN regdict.values
     THEN [lines |-> << RegLine(regdict, "label", regdict.values[value], 0) >>,
           raised |-> FALSE]
     ELSE IF regdict.vkind = "lambda"
     THEN IF value = NoneVal
          THEN [lines |-> <<>>, raised |-> TRUE]
          ELSE [lines |-> << RegLine(regdict, "label", BatteryInstalledType(value), 0) >>,
                raised |-> FALSE]
     ELSE IF regdict.type = "bool"
     THEN [lines |-> << RegLine(regdict, "label",
                                IF value # NoneVal /\ value # 0 THEN "on" ELSE "off", 0) >>,
           raised |-> FALSE]
     ELSE IF regdict.type = "int"
     THEN [lines |-> << RegLine(regdict, "number", "", value) >>, raised |-> FALSE]
     ELSE IF regdict.type = "bits"
     THEN IF value = NoneVal
          THEN [lines |-> << RegLine(regdict, "number", "", value) >>,
                raised |-> DOMAIN regdict.bits # {}]
          ELSE [lines |-> << RegLine(regdict, "number", "", value) >>
                          \o BitLines(regdict, value, DOMAIN regdict.bits),
                raised |-> FALSE]
     ELSE [lines |-> << RegLine(regdict, "number", "", value) >>, raised |-> FALSE]

\* print_value(info, values) with info an address
PrintValueRaw(addr, values) == [lines |-> << RawLine(addr, values) >>, raised |-> FALSE]

\* ------------------------------------------------------------------------
\* monitor
\* ------------------------------------------------------------------------

NoThreshold == [set |-> FALSE, num |-> 0, den |-> 1]
Threshold(n, d) == [set |-> TRUE, num |-> n, den |-> d]

\* prior.get(addr, None)
PriorGet(prior_, addr) == IF addr \in DOMAIN prior_ THEN prior_[addr] ELSE NoneVal

\* mutant of RelChangeExceeds: >= in place of >
RelChangeAtLeast(old, new, threshold) ==
  Abs(new - old) * threshold.den >= threshold.num * old

\* rel_change(old, new) > threshold, for old > 0: abs(new - old)/old > num/den
RelChangeExceeds(old, new, threshold) ==
  Abs(new - old) * threshold.den > threshold.num * old

\* mutant of AbsChangeExceeds: >= in place of >
AbsChangeAtLeast(p, value, threshold) ==
  Abs(p - value) * threshold.den >= threshold.num

\* abs(p - value) > threshold
AbsChangeExceeds(p, value, threshold) ==
  Abs(p - value) * threshold.den > threshold.num

\* mutant of Show: the absolute check decides alone whenever it is configured
ShowAbsOverrides(p, value, rel, abs_) ==
  LET show0 == p # value
      show1 == IF show0 /\ rel.set /\ p # NoneVal /\ p # 0
               THEN Abs(value - p) * rel.den > rel.num * p
               ELSE show0
  IN IF show0 /\ abs_.set THEN Abs(p - value) * abs_.den > abs_.num ELSE show1

\* mutant of Show: the thresholds are applied without the inequality test
ShowThresholdsOnly(p, value, rel, abs_) ==
  LET show1 == IF rel.set /\ p # NoneVal /\ p # 0
               THEN Abs(value - p) * rel.den > rel.num * p
               ELSE TRUE
  IN IF show1 /\ abs_.set THEN Abs(p - value) * abs_.den > abs_.num ELSE show1

\* the value of `show` for a sample `value` of an address whose prior.get is p
Show(p, value, rel, abs_) ==
  LET show0 == p # value
      show1 == IF show0 /\ rel.set /\ p # NoneVal /\ p # 0
               THEN RelChangeExceeds(p, value, rel)
               ELSE show0
  IN IF show1 /\ abs_.set THEN AbsChangeExceeds(p, value, abs_) ELSE show1

\* abs(None - value) raises TypeError: the absolute check on an address with no prior
ShowRaises(p, value, rel, abs_) == abs_.set /\ p = NoneVal

\* mutant of Compares: the first cycle is compared like any other
ComparesAlways(first_) == TRUE

\* whether the sample is compared at all: `if not first:`
Compares(first_) == ~first_

\* mutant of Skipped: the skip list is not consulted
SkippedNever(addr, skip) == FALSE

\* `if addr in skip_addr: idx += idx_inc; continue`
Skipped(addr, skip) == \E j \in 1..Len(skip) : skip[j] = addr

\* mutant of PriorSet: only the first sample of an address is stored
PriorSetOnce(prior_, addr, value) ==
  IF addr \in DOMAIN prior_ THEN prior_ ELSE (addr :> value) @@ prior_

\* prior[addr] = value
PriorSet(prior_, addr, value) ==
  IF addr \in DOMAIN prior_ THEN [prior_ EXCEPT ![addr] = value]
  ELSE (addr :> value) @@ prior_

\* value = 0; for i in range(len(vals)): value |= (vals[i] << (16*i))
RECURSIVE MonitorAssembleFrom(_, _, _)
MonitorAssembleFrom(vals, i, value) ==
  IF i >= Len(vals) THEN value
  ELSE MonitorAssembleFrom(vals, i + 1, BitOr(value, Shl(vals[i + 1], 16 * i)))

\* the word assembly of the monitor loop (lines 474-479)
MonitorAssemble(vals) ==
  IF Len(vals) = 1 THEN vals[1] ELSE MonitorAssembleFrom(vals, 0, 0)

\* the value the walk takes at buffer index idx: the assembled words of the
\* catalog entry k found there, or the single word when there is none (k = 0)
SampleAt(vals, idx, k) ==
  IF k # 0
  THEN MonitorAssemble(SubSeq(vals, idx + 1, Min(Len(vals), idx + GetLength(Quint24DCRegisters[k]))))
  ELSE vals[idx + 1]

\* the record of `value` at line 475, 479 or 493 of each iteration that got there:
\* per address, the value of the latest such iteration
Sampled(sampled_, addr, value) ==
  IF addr \in DOMAIN sampled_ THEN [sampled_ EXCEPT ![addr] = value]
  ELSE (addr :> value) @@ sampled_

\* the state of the walk loop and what the loop body reads
WalkState(idx, prior_, lines, raised, sampled_) ==
  [idx |-> idx, prior |-> prior_, lines |-> lines, raised |-> raised, sampled |-> sampled_]

WalkContext(start, vals, first_, skip, rel, abs_) ==
  [start |-> start, vals |-> vals, first |-> first_, skip |-> skip, rel |-> rel, abs |-> abs_]

\* one iteration of `while idx < len(values)` (lines 456-507)
WalkStep(st, c) ==
  LET addr == c.start + st.idx
      k == LookupAddr(addr)
      idx_inc == IF k # 0 THEN GetLength(Quint24DCRegisters[k]) ELSE 1
      value == SampleAt(c.vals, st.idx, k)
      p == PriorGet(st.prior, addr)
      show == Compares(c.first) /\ Show(p, value, c.rel, c.abs)
      printed == IF k # 0 THEN PrintValueReg(Quint24DCRegisters[k], IntVal(value))
                 ELSE PrintValueRaw(addr, IntVal(value))
  IN IF Skipped(addr, c.skip)
     THEN WalkState(st.idx + idx_inc, st.prior, st.lines, FALSE, st.sampled)
     ELSE IF Compares(c.first) /\ ShowRaises(p, value, c.rel, c.abs)
     THEN WalkState(st.idx, st.prior, st.lines, TRUE, st.sampled)
     ELSE WalkState(st.idx + idx_inc, PriorSet(st.prior, addr, value),
                    IF show THEN st.lines \o printed.lines ELSE st.lines, FALSE,
                    Sampled(st.sampled, addr, value))

WalkDone(st, c) == st.raised \/ st.idx >= Len(c.vals)

\* the loop is run in blocks of BlockSteps iterations, which bounds the depth of
\* the evaluation and changes nothing of the result
BlockSteps == 16

RECURSIVE WalkBlock(_, _, _)
WalkBlock(st, c, n) ==
  IF n = 0 \/ WalkDone(st, c) THEN st ELSE WalkBlock(WalkStep(st, c), c, n - 1)

RECURSIVE WalkFrom(_, _)
WalkFrom(st, c) ==
  IF WalkDone(st, c) THEN st ELSE WalkFrom(WalkBlock(st, c, BlockSteps), c)

\* the walk of one range's buffer: prior afterwards, the lines printed, and whether
\* it ended in a TypeError
Walk(start, vals, prior_, first_, skip, rel, abs_, sampled_) ==
  WalkFrom(WalkState(0, prior_, <<>>, FALSE, sampled_),
           WalkContext(start, vals, first_, skip, rel, abs_))

\* ------------------------------------------------------------------------
\* State
\* ------------------------------------------------------------------------

VARIABLES
  live,            \* the device: the addresses that vary during this run
  action,          \* args.action
  arg_raw,         \* args.raw
  min_change_rel,  \* args.min_change_rel
  min_change_abs,  \* args.min_change_abs
  arg_skip_addr,   \* args.skip_addr (an absent option is the empty list)
  arg_repeat,      \* args.repeat
  action_params,   \* args.action_params
  pc,              \* "start", "loop", "read", "walked", "done", "exit1", "crashed"
  skip_addr,       \* monitor: skip_addr
  prior,           \* monitor: prior
  first,           \* monitor: first
  rng,             \* monitor: index of (start, end) in Quint24DCMonitorRegisters
  values,          \* monitor: values, the buffer of the current range
  before,          \* monitor: prior as it was when the last walk began
  sampled,         \* monitor: per address, `value` of the latest iteration for it
  sampled_before,  \* monitor: sampled as it was when the last walk began
  shown,           \* monitor: per address, the value of its last report
  reg,             \* dump: index of the catalog entry of the for loop
  i,               \* dumpall: i
  repeat,          \* get: repeat
  param,           \* get: index of param in action_params
  reads,           \* the readRegister calls of the last step
  writes,          \* the writeRegister calls of the last step
  out,             \* the lines printed by the last step
  words,           \* word assembly alone: the words read
  pvalue,          \* word assembly alone: value of print_value
  mvalue           \* word assembly alone: value of the monitor loop

args == << live, action, arg_raw, min_change_rel, min_change_abs, arg_skip_addr,
           arg_repeat, action_params >>
monitorvars == << skip_addr, prior, first, rng, values, before,
                  sampled, sampled_before, shown >>
loopvars == << reg, i, repeat, param >>
purevars == << words, pvalue, mvalue >>
vars == << args, pc, monitorvars, loopvars, reads, writes, out, purevars >>

\* the option values tried
RelThresholds == { NoThreshold, Threshold(1, 20), Threshold(0 - 1, 20) }
AbsThresholds == { NoThreshold, Threshold(10, 1), Threshold(0 - 1, 1) }
SkipOptions == { <<>>, << "0x7400,29700" >>, << "0x7490", "7404h" >> }
NoRepeat == [set |-> FALSE, val |-> 0]
Repeat(n) == [set |-> TRUE, val |-> n]
MaxRepeat == 2
RepeatOptions == { NoRepeat, Repeat(0 - 1) } \cup { Repeat(n) : n \in 0..MaxRepeat }
GetParams ==
  { <<>>, << "OUT_LX_Remote" >>, << "OUT_LX_BatteryMode" >>, << "0x7401" >>,
    << "OUT_LUDW_ActualAlarm", "29700" >>, << "0x7490", "0x7400" >>,
    << "OUT_LUI_SocStateOfCharge" >>, << "bogus" >>, << "4660", "OUT_LX_Remote" >> }
SetParams ==
  { <<>>, << "0x3203" >>, << "0x3203", "120" >>, << "0x3203", "120", "120" >>,
    << "TIME_LIMIT_MODE_CUSTOM_BUFFER_TIME", "0x10" >>, << "OUT_LUDW_ActualAlarm", "120" >>,
    << "4660", "120" >>, << "bogus", "120" >>, << "12x", "0x10" >>, << "0x3203", "12x" >>,
    << "bogus", "12x" >> }

InitArgs ==
  \/ /\ action = "monitor"
     /\ min_change_rel \in RelThresholds
     /\ min_change_abs \in AbsThresholds
     /\ arg_skip_addr \in SkipOptions
     /\ arg_raw = FALSE /\ arg_repeat = NoRepeat /\ action_params = <<>>
  \/ /\ action = "dump"
     /\ arg_raw \in BOOLEAN
     /\ min_change_rel = NoThreshold /\ min_change_abs = NoThreshold
     /\ arg_skip_addr = <<>> /\ arg_repeat = NoRepeat /\ action_params = <<>>
  \/ /\ action = "dumpall"
     /\ arg_raw = FALSE
     /\ min_change_rel = NoThreshold /\ min_change_abs = NoThreshold
     /\ arg_skip_addr = <<>> /\ arg_repeat = NoRepeat /\ action_params = <<>>
  \/ /\ action = "get"
     /\ arg_repeat \in RepeatOptions
     /\ action_params \in GetParams
     /\ arg_raw = FALSE
     /\ min_change_rel = NoThreshold /\ min_change_abs = NoThreshold
     /\ arg_skip_addr = <<>>
  \/ /\ action = "set"
     /\ action_params \in SetParams
     /\ arg_raw = FALSE /\ arg_repeat = NoRepeat
     /\ min_change_rel = NoThreshold /\ min_change_abs = NoThreshold
     /\ arg_skip_addr = <<>>

Init ==
  /\ live \in Scenarios
  /\ InitArgs
  /\ pc = "start"
  /\ skip_addr = <<>>
  /\ prior = <<>>
  /\ first = TRUE
  /\ rng = 1
  /\ values = <<>>
  /\ before = <<>>
  /\ sampled = <<>>
  /\ sampled_before = <<>>
  /\ shown = <<>>
  /\ reg = 1
  /\ i = DumpallFirst
  /\ repeat = 1
  /\ param = 1
  /\ reads = <<>>
  /\ writes = <<>>
  /\ out = <<>>
  /\ words = <<>>
  /\ pvalue = NoneVal
  /\ mvalue = NoneVal

\* if values: (a list with an element)
Truthy(vals) == vals.kind = "list" /\ Len(vals.list) > 0

\* ------------------------------------------------------------------------
\* dump (lines 399-407)
\* ------------------------------------------------------------------------

\* print(reg+":", values, regdict["unit"] if "unit" in regdict else "")
RawDumpLine(regdict, vals) ==
  Line(regdict.name, regdict.addr, "list", "", 0, regdict.unit, vals)

\* one iteration of the for loop over the catalog
DumpStep ==
  /\ action = "dump" /\ pc \in {"start", "loop"}
  /\ reg <= NumRegs
  /\ LET regdict == Quint24DCRegisters[reg]
     IN \E resp \in readRegister(regdict.addr, GetLength(regdict), live) :
          LET printed == PrintValueReg(regdict, resp)
          IN /\ reads' = << Request(regdict.addr, GetLength(regdict), resp) >>
             /\ out' = IF ~Truthy(resp) THEN <<>>
                       ELSE IF arg_raw THEN << RawDumpLine(regdict, resp) >>
                       ELSE printed.lines
             /\ pc' = IF Truthy(resp) /\ ~arg_raw /\ printed.raised THEN "crashed"
                      ELSE IF reg = NumRegs THEN "done" ELSE "loop"
  /\ reg' = reg + 1
  /\ UNCHANGED << args, purevars, monitorvars, i, repeat, param, writes >>

\* ------------------------------------------------------------------------
\* dumpall (lines 408-426)
\* ------------------------------------------------------------------------

\* mutant of SuppressRaw: the sentinel is printed like any other word
SuppressRawNever(vals) == FALSE

\* `values != [65535]` fails: the word of an address outside the catalog is not printed
SuppressRaw(vals) == vals = ListVal(<< Sentinel >>)

\* one iteration of `while i < 0x7500`
DumpallStep ==
  /\ action = "dumpall" /\ pc \in {"start", "loop"}
  /\ i < DumpallEnd
  /\ \E resp \in readRegister(i, 1, live) :
       LET k == LookupAddr(i)
           found == k # 0
           i1 == IF found THEN i + GetLength(Quint24DCRegisters[k]) - 1 ELSE i
           printed == IF found THEN PrintValueReg(Quint24DCRegisters[k], resp)
                      ELSE IF ~SuppressRaw(resp) THEN PrintValueRaw(i1, resp)
                      ELSE [lines |-> <<>>, raised |-> FALSE]
       IN /\ reads' = << Request(i, 1, resp) >>
          /\ out' = printed.lines
          /\ i' = IF printed.raised THEN i1 ELSE i1 + 1
          /\ pc' = IF printed.raised THEN "crashed"
                   ELSE IF i1 + 1 < DumpallEnd THEN "loop" ELSE "done"
  /\ UNCHANGED << args, purevars, monitorvars, reg, repeat, param, writes >>

\* ------------------------------------------------------------------------
\* monitor (lines 427-510)
\* ------------------------------------------------------------------------

\* lines 428-441: skip_addr from --skip-addr and default_skip; int(a, 0) raising
\* ValueError ends the process
MonitorStart ==
  /\ action = "monitor" /\ pc = "start"
  /\ LET pieces == Concat([j \in 1..Len(arg_skip_addr) |->
                             Split(Chars[arg_skip_addr[j]], ",")])
         parsed == [j \in 1..Len(pieces) |-> ParseInt(pieces[j])]
     IN IF \E j \in 1..Len(parsed) : parsed[j] = NoneVal
        THEN /\ pc' = "crashed"
             /\ UNCHANGED skip_addr
        ELSE /\ pc' = "read"
             /\ skip_addr' = parsed \o default_skip
  /\ UNCHANGED << args, purevars, prior, first, rng, values, before, sampled, sampled_before,
                  shown, loopvars, reads, writes, out >>

\* lines 449-450: one readRegister(start + len(values), count=0); values.extend(None)
\* raises TypeError
MonitorRead ==
  /\ action = "monitor" /\ pc = "read"
  /\ LET range == Quint24DCMonitorRegisters[rng]
     IN /\ Len(values) < range.end - range.start
        /\ \E resp \in readRegister(range.start + Len(values), 0, live) :
             /\ reads' = << Request(range.start + Len(values), 0, resp) >>
             /\ IF resp.kind = "none"
                THEN pc' = "crashed" /\ UNCHANGED values
                ELSE pc' = "read" /\ values' = values \o resp.list
  /\ UNCHANGED << args, purevars, skip_addr, prior, first, rng, before, sampled,
                  sampled_before, shown, loopvars, writes, out >>

\* print_value(..., value, ...) at lines 490 and 503: shown_ with the value of
\* every address that has a line in lines
ShownAfter(shown_, start, vals, lines) ==
  LET told == { lines[j].addr : j \in 1..Len(lines) }
  IN [a \in DOMAIN shown_ \cup told |->
        IF a \in told THEN SampleAt(vals, a - start, LookupAddr(a)) ELSE shown_[a]]

\* lines 454-507: the walk of the buffer once the range is read
MonitorWalk ==
  /\ action = "monitor" /\ pc = "read"
  /\ LET range == Quint24DCMonitorRegisters[rng]
     IN /\ Len(values) >= range.end - range.start
        /\ \E w \in { Walk(range.start, values, prior, first, skip_addr,
                           min_change_rel, min_change_abs, sampled) } :
             /\ prior' = w.prior
             /\ sampled' = w.sampled
             /\ out' = w.lines
             /\ before' = prior
             /\ shown' = ShownAfter(shown, range.start, values, w.lines)
             /\ pc' = IF w.raised THEN "crashed" ELSE "walked"
  /\ sampled_before' = sampled
  /\ reads' = <<>>
  /\ UNCHANGED << args, purevars, skip_addr, first, rng, values, loopvars, writes >>

\* lines 447-448: the next (start, end), with values = []
MonitorNextRange ==
  /\ action = "monitor" /\ pc = "walked"
  /\ rng < Len(Quint24DCMonitorRegisters)
  /\ rng' = rng + 1
  /\ values' = <<>>
  /\ before' = <<>>
  /\ sampled_before' = <<>>
  /\ out' = <<>>
  /\ pc' = "read"
  /\ UNCHANGED << args, purevars, skip_addr, prior, first, sampled, shown, loopvars,
                  reads, writes >>

\* lines 509-510 and back to 446-448: sleep, first = False, the first range again
MonitorSleep ==
  /\ action = "monitor" /\ pc = "walked"
  /\ rng = Len(Quint24DCMonitorRegisters)
  /\ first' = FALSE
  /\ rng' = 1
  /\ values' = <<>>
  /\ before' = <<>>
  /\ sampled_before' = <<>>
  /\ out' = <<>>
  /\ pc' = "read"
  /\ UNCHANGED << args, purevars, skip_addr, prior, sampled, shown, loopvars,
                  reads, writes >>

\* ------------------------------------------------------------------------
\* get (lines 511-542)
\* ------------------------------------------------------------------------

\* lines 512-519
GetStart ==
  /\ action = "get" /\ pc = "start"
  /\ IF Len(action_params) = 0
     THEN /\ pc' = "exit1"
          /\ out' = << Message("missing parameter") >>
          /\ UNCHANGED repeat
     ELSE /\ pc' = "loop"
          /\ out' = <<>>
          /\ repeat' = IF arg_repeat.set THEN arg_repeat.val ELSE 1
  /\ UNCHANGED << args, purevars, monitorvars, reg, i, param, reads, writes >>

\* mutant of LookupParam: only the address is compared, never the name
LookupParamByAddr(p, param_addr) ==
  LET hit(k) == Quint24DCRegisters[k].addr = param_addr
  IN IF \E k \in 1..NumRegs : hit(k)
     THEN CHOOSE k \in 1..NumRegs : hit(k) /\ \A j \in 1..(k - 1) : ~hit(j)
     ELSE 0

\* `param == reg or param_addr == regdict["addr"]`: the first entry that matches
LookupParam(p, param_addr) ==
  LET hit(k) == Quint24DCRegisters[k].name = p \/ Quint24DCRegisters[k].addr = param_addr
  IN IF \E k \in 1..NumRegs : hit(k)
     THEN CHOOSE k \in 1..NumRegs : hit(k) /\ \A j \in 1..(k - 1) : ~hit(j)
     ELSE 0

GetOutcome(rds, lines, raised) == [reads |-> rds, lines |-> lines, raised |-> raised]

\* lines 535-538, taken when values is None after the catalog loop
GetRaw(param_addr, dev, rds, lines) ==
  IF param_addr = NoneVal
  THEN { GetOutcome(rds \o << RequestNone >>, lines, TRUE) }
  ELSE { GetOutcome(rds \o << Request(param_addr, 1, resp) >>,
                    lines \o PrintValueRaw(param_addr, resp).lines, FALSE) :
           resp \in readRegister(param_addr, 1, dev) }

\* lines 522-538 for one param: the reads issued, the lines printed, and whether
\* the step ends in an uncaught exception
GetParam(p, dev) ==
  LET param_addr == ParseInt(Chars[p])
      k == LookupParam(p, param_addr)
      regdict == Quint24DCRegisters[k]
  IN IF k = 0 THEN GetRaw(param_addr, dev, <<>>, <<>>)
     ELSE UNION {
            LET printed == PrintValueReg(regdict, resp)
                rds == << Request(regdict.addr, GetLength(regdict), resp) >>
            IN IF printed.raised THEN { GetOutcome(rds, printed.lines, TRUE) }
               ELSE IF resp.kind = "none" THEN GetRaw(param_addr, dev, rds, printed.lines)
               ELSE { GetOutcome(rds, printed.lines, FALSE) } :
            resp \in readRegister(regdict.addr, GetLength(regdict), dev) }

\* one iteration of `for param in args.action_params`
GetStep ==
  /\ action = "get" /\ pc = "loop"
  /\ repeat # 0
  /\ param <= Len(action_params)
  /\ \E o \in GetParam(action_params[param], live) :
       /\ reads' = o.reads
       /\ out' = o.lines
       /\ pc' = IF o.raised THEN "crashed" ELSE "loop"
  /\ param' = param + 1
  /\ UNCHANGED << args, purevars, monitorvars, reg, i, repeat, writes >>

\* lines 540-542 and back to 520: the end of a round
GetRoundEnd ==
  /\ action = "get" /\ pc = "loop"
  /\ repeat # 0
  /\ param > Len(action_params)
  /\ repeat' = IF repeat > 0 THEN repeat - 1 ELSE repeat
  /\ param' = 1
  /\ reads' = <<>>
  /\ out' = <<>>
  /\ UNCHANGED << args, purevars, pc, monitorvars, reg, i, writes >>

\* line 520: `while repeat != 0` is left
GetDone ==
  /\ action = "get" /\ pc = "loop"
  /\ repeat = 0
  /\ pc' = "done"
  /\ UNCHANGED << args, purevars, monitorvars, loopvars, reads, writes, out >>

\* ------------------------------------------------------------------------
\* set (lines 543-567)
\* ------------------------------------------------------------------------

SetRun ==
  /\ action = "set" /\ pc = "start"
  /\ IF Len(action_params) # 2
     THEN /\ pc' = "exit1"
          /\ out' = << Message("wrong parameter") >>
          /\ writes' = <<>>
     ELSE LET param_addr == ParseInt(Chars[action_params[1]])
              value == ParseInt(Chars[action_params[2]])
              k == LookupParam(action_params[1], param_addr)
          IN IF value = NoneVal
             THEN pc' = "crashed" /\ out' = <<>> /\ writes' = <<>>
             ELSE IF k # 0
             THEN /\ \E w \in writeRegister(Quint24DCRegisters[k].addr, value) :
                       writes' = << w >>
                  /\ pc' = "done" /\ out' = <<>>
             ELSE IF param_addr = NoneVal
             THEN /\ pc' = "exit1"
                  /\ out' = << Message("error, register not found") >>
                  /\ writes' = <<>>
             ELSE /\ \E w \in writeRegister(param_addr, value) : writes' = << w >>
                  /\ pc' = "done" /\ out' = <<>>
  /\ UNCHANGED << args, purevars, monitorvars, loopvars, reads >>

Next ==
  \/ DumpStep
  \/ DumpallStep
  \/ MonitorStart
  \/ MonitorRead
  \/ MonitorWalk
  \/ MonitorNextRange
  \/ MonitorSleep
  \/ GetStart
  \/ GetStep
  \/ GetRoundEnd
  \/ GetDone
  \/ SetRun

Spec == Init /\ [][Next]_vars


\* ------------------------------------------------------------------------
\* The word assembly alone, applied to words drawn from LowWords and HighWords
\* ------------------------------------------------------------------------

\* first words and, below 2^15 so that the value stays below 2^31, second words
LowWords == { 0, 1, 2, 255, 256, 4660, 32767, 32768, 65534, 65535 }
HighWords == { 0, 1, 2, 255, 256, 4660, 32767 }
WordLists ==
  { << lo >> : lo \in LowWords } \cup { << lo, hi >> : lo \in LowWords, hi \in HighWords }

InitAssemble ==
  /\ live \in { {} }
  /\ action = "none"
  /\ arg_raw = FALSE
  /\ min_change_rel = NoThreshold /\ min_change_abs = NoThreshold
  /\ arg_skip_addr = <<>> /\ arg_repeat = NoRepeat /\ action_params = <<>>
  /\ pc = "pure"
  /\ skip_addr = <<>> /\ prior = <<>> /\ first = TRUE /\ rng = 1
  /\ values = <<>> /\ before = <<>>
  /\ sampled = <<>> /\ sampled_before = <<>> /\ shown = <<>>
  /\ reg = 1 /\ i = DumpallFirst /\ repeat = 1 /\ param = 1
  /\ reads = <<>> /\ writes = <<>> /\ out = <<>>
  /\ words \in WordLists
  /\ pvalue = NoneVal
  /\ mvalue = NoneVal

\* print_value(regdict, words), lines 354-360
PrintValueAssemble ==
  /\ pc = "pure" /\ pvalue = NoneVal
  /\ pvalue' = Assemble(words)
  /\ UNCHANGED << args, pc, monitorvars, loopvars, reads, writes, out, words, mvalue >>

\* the monitor walk over vals = words, lines 474-479
MonitorAssembleStep ==
  /\ pc = "pure" /\ mvalue = NoneVal
  /\ mvalue' = MonitorAssemble(words)
  /\ UNCHANGED << args, pc, monitorvars, loopvars, reads, writes, out, words, pvalue >>

NextAssemble ==
  \/ PrintValueAssemble
  \/ MonitorAssembleStep

SpecAssemble == InitAssemble /\ [][NextAssemble]_vars
\* ------------------------------------------------------------------------
\* Properties of the monitor loop
\* ------------------------------------------------------------------------

\* the state right after the walk of one range: values is the buffer walked,
\* before is prior as the walk found it, out holds the lines the walk printed
MonitorWalked == action = "monitor" /\ pc = "walked"

Reported(a) == \E j \in 1..Len(out) : out[j].addr = a

\* a lies strictly inside the span of a catalog entry
InsideEntry(a) ==
  \E k \in 1..NumRegs :
    /\ Quint24DCRegisters[k].addr < a
    /\ a < Quint24DCRegisters[k].addr + GetLength(Quint24DCRegisters[k])

\* the addresses of default_skip: the five named registers (0x6c0c, 0x6c10, 0x7430,
\* 0x7477, 0x7431) and the eight literals
DefaultSkipSet ==
  { 27660, 27664, 29744, 29815, 29745,
    29707, 29708, 29709, 29746, 29756, 29757, 29804, 29816 }

\* the addresses given with --skip-addr
UserSkipSet ==
  { ParseInt(piece) :
      piece \in UNION { { Split(Chars[arg_skip_addr[j]], ",")[n] :
                            n \in 1..Len(Split(Chars[arg_skip_addr[j]], ",")) } :
                        j \in 1..Len(arg_skip_addr) } }

SkipSet == DefaultSkipSet \cup UserSkipSet

\* the addresses of the range just walked that are compared: not skipped and
\* not inside a longer register
Compared ==
  { a \in Quint24DCMonitorRegisters[rng].start..(Quint24DCMonitorRegisters[rng].end - 1) :
      ~InsideEntry(a) /\ a \notin SkipSet }

\* sum of ws[j] * 65536^(j-1)
RECURSIVE WordSum(_)
WordSum(ws) ==
  IF Len(ws) = 0 THEN 0 ELSE Head(ws) + 65536 * WordSum(Tail(ws))

\* the value sampled for address a in the buffer just walked
NewValue(a) ==
  LET off == a - Quint24DCMonitorRegisters[rng].start
      k == LookupAddr(a)
      n == IF k = 0 THEN 1 ELSE GetLength(Quint24DCRegisters[k])
  IN WordSum(SubSeq(values, off + 1, off + n))

\* the value stored for address a when the walk began
OldValue(a) == IF a \in DOMAIN before THEN before[a] ELSE NoneVal

Delta(a) == Abs(NewValue(a) - OldValue(a))

\* |new - prior| > the absolute threshold
AbsPass(a) == Delta(a) * min_change_abs.den > min_change_abs.num

\* |new - prior| / |prior| > the relative threshold, for a nonzero prior
RelPass(a) == Delta(a) * min_change_rel.den > min_change_rel.num * Abs(OldValue(a))

\* index in the buffer of the second range of 0x7404, the address outside the catalog
Idx7404 == 29700 - 29696 + 1

\* C1: during the first polling cycle nothing is reported, whatever is read and
\* whatever thresholds are configured
C1_NoReportOnFirstCycle == (action = "monitor" /\ first) => out = <<>>

C1_Witness ==
  /\ MonitorWalked /\ first /\ rng = 2
  /\ min_change_rel.set /\ min_change_abs.set
  /\ values[Idx7404] = 111
  /\ 29700 \in DOMAIN prior /\ prior[29700] = 111

\* C2 as stated: with both thresholds configured, a compared address with
\* new != prior is reported iff |new - prior| > the absolute threshold, whatever
\* the relative check gave (here already for absolute thresholds >= 0)
C2_AbsoluteOverridesRelative ==
  (MonitorWalked /\ ~first /\ min_change_rel.set /\ min_change_abs.set
     /\ min_change_abs.num >= 0)
  => \A a \in Compared :
       NewValue(a) # OldValue(a) => (Reported(a) <=> AbsPass(a))

\* C2 as amended: with both thresholds configured, a compared address with
\* new != prior is reported iff it passes the relative check (or its prior is 0)
\* and the absolute check
C2_BothThresholdsMustPass ==
  (MonitorWalked /\ ~first /\ min_change_rel.set /\ min_change_abs.set)
  => \A a \in Compared :
       NewValue(a) # OldValue(a)
       => (Reported(a) <=> ((OldValue(a) = 0 \/ RelPass(a)) /\ AbsPass(a)))

C2_Witness ==
  /\ MonitorWalked /\ ~first /\ rng = 2
  /\ min_change_rel = Threshold(1, 20) /\ min_change_abs = Threshold(10, 1)
  /\ OldValue(29700) = 1000 /\ values[Idx7404] = 1020
  /\ ~Reported(29700)

\* C3 as stated: a failed read inside a polling cycle does not end the monitor;
\* the cycle is abandoned with nothing printed and the next cycle begins
C3_FailedReadStartsNextCycle ==
  (action = "monitor" /\ reads # <<>> /\ reads[1].ok = "none")
  => (pc = "read" /\ rng = 1 /\ values = <<>> /\ out = <<>>)

\* a line that carries a decoded value or a label
Decoded(line) ==
  \/ line.form \in {"label", "bit"}
  \/ line.form = "number" /\ line.num # NoneVal

\* C4 as stated: in dump, dumpall and get, a read that yields no value puts out
\* no decoded value or label for its address
C4_FailedReadEmitsNothing ==
  (action \in {"dump", "dumpall", "get"})
  => \A r \in 1..Len(reads) :
       reads[r].ok = "none"
       => ~\E j \in 1..Len(out) : out[j].addr = reads[r].addr /\ Decoded(out[j])

\* C5 as stated: at a catalog address of Length L dumpall reads L words and goes
\* on at a + L; at any other address it reads one word and goes on at a + 1
C5_DumpallReadsLength ==
  (action = "dumpall" /\ reads # <<>> /\ pc # "crashed")
  => LET a == reads[1].addr
         k == LookupAddr(a)
         n == IF k = 0 THEN 1 ELSE GetLength(Quint24DCRegisters[k])
     IN reads[1].count = n /\ i = a + n

\* C6: after the walk of a range, in every cycle, the stored prior of every
\* compared address is the value sampled in that walk, reported or not
C6_PriorIsLastSample ==
  MonitorWalked => \A a \in Compared : a \in DOMAIN prior /\ prior[a] = NewValue(a)

C6_Witness ==
  /\ MonitorWalked /\ ~first /\ rng = 2
  /\ min_change_abs = Threshold(10, 1)
  /\ OldValue(29700) = 100 /\ values[Idx7404] = 105
  /\ ~Reported(29700)
  /\ prior[29700] = 105

\* C7 as stated: with only an absolute threshold T, a compared address is
\* reported iff |new - prior| > T
C7_AbsoluteOnlyIff ==
  (MonitorWalked /\ ~first /\ min_change_abs.set /\ ~min_change_rel.set)
  => \A a \in Compared : Reported(a) <=> AbsPass(a)

\* C7 as amended: with only an absolute threshold T, a compared address is
\* reported iff new != prior and |new - prior| > T
C7_AbsoluteOnlyChanged ==
  (MonitorWalked /\ ~first /\ min_change_abs.set /\ ~min_change_rel.set)
  => \A a \in Compared :
       Reported(a) <=> (NewValue(a) # OldValue(a) /\ AbsPass(a))

C7_Witness ==
  /\ MonitorWalked /\ ~first /\ rng = 2
  /\ min_change_abs = Threshold(10, 1) /\ ~min_change_rel.set
  /\ OldValue(29700) = 100 /\ values[Idx7404] = 111
  /\ Reported(29700)

\* C8: with only a relative threshold R >= 0, a compared address with a nonzero
\* prior is reported iff |new - prior| / |prior| > R, and one with prior 0 iff
\* new != prior
C8_RelativeOnly ==
  (MonitorWalked /\ ~first /\ min_change_rel.set /\ min_change_rel.num >= 0
     /\ ~min_change_abs.set)
  => \A a \in Compared :
       IF OldValue(a) # 0
       THEN Reported(a) <=> RelPass(a)
       ELSE Reported(a) <=> NewValue(a) # OldValue(a)

C8_Witness ==
  /\ MonitorWalked /\ ~first /\ rng = 2
  /\ min_change_rel = Threshold(1, 20) /\ ~min_change_abs.set
  /\ OldValue(29700) = 100 /\ values[Idx7404] = 106
  /\ Reported(29700)

\* C9: with no threshold a compared address is reported iff new != prior, and
\* with new = prior nothing is reported under any thresholds
C9_ExactInequality ==
  (MonitorWalked /\ ~first)
  => \A a \in Compared :
       /\ NewValue(a) = OldValue(a) => ~Reported(a)
       /\ (~min_change_rel.set /\ ~min_change_abs.set)
          => (Reported(a) <=> NewValue(a) # OldValue(a))

C9_Witness ==
  /\ MonitorWalked /\ ~first /\ rng = 2
  /\ ~min_change_rel.set /\ ~min_change_abs.set
  /\ OldValue(29700) = 100 /\ values[Idx7404] = 105
  /\ Reported(29700)

\* C10: an address of the skip set (default_skip and --skip-addr) is never reported
C10_SkippedNeverReported ==
  action = "monitor" => \A j \in 1..Len(out) : out[j].addr \notin SkipSet

C10_Witness ==
  /\ MonitorWalked /\ ~first /\ rng = 2
  /\ arg_skip_addr = << "0x7400,29700" >>
  /\ 29700 \in SkipSet
  /\ values[Idx7404] = 111
  /\ ~Reported(29700) /\ 29700 \notin DOMAIN prior

\* ------------------------------------------------------------------------
\* Properties of dumpall, get and set
\* ------------------------------------------------------------------------

\* C11: a dumpall step whose read succeeds prints an entry iff its address is in
\* the catalog or the word read is not 0xFFFF; for an address outside the catalog
\* the entry is the raw one
C11_SentinelOnlyOutsideCatalog ==
  (action = "dumpall" /\ reads # <<>> /\ reads[1].ok = "ok")
  => LET a == reads[1].addr
         matched == \E k \in 1..NumRegs : Quint24DCRegisters[k].addr = a
     IN /\ out # <<>> <=> (matched \/ reads[1].regs[1] # 65535)
        /\ (~matched /\ out # <<>>)
           => (Len(out) = 1 /\ out[1].form = "raw" /\ out[1].addr = a
               /\ out[1].raw = ListVal(reads[1].regs))
        /\ (matched /\ out # <<>>) => (out[1].addr = a /\ out[1].form # "raw")

\* OUT_LX_BatteryMode (0x7401), a catalog address, reads 0xFFFF and is printed
C11_Witness ==
  /\ action = "dumpall" /\ reads # <<>> /\ reads[1].ok = "ok"
  /\ reads[1].addr = 29697 /\ reads[1].regs = << 65535 >>
  /\ out # <<>> /\ out[1].name = "OUT_LX_BatteryMode"

\* the numbers written by the numeric strings used on the command line; every
\* other string used is no number
IntOf ==
  ( "0x7400" :> 29696 @@ "0x7401" :> 29697 @@ "0x7490" :> 29840 @@ "29700" :> 29700
    @@ "0x3203" :> 12803 @@ "120" :> 120 @@ "0x10" :> 16 @@ "4660" :> 4660 )

IsCatalogName(s) == \E k \in 1..NumRegs : Quint24DCRegisters[k].name = s

\* a target resolves: it is a catalog name or a number
Resolves(s) == IsCatalogName(s) \/ s \in DOMAIN IntOf

\* the address a resolving target stands for
TargetAddr(s) == IF IsCatalogName(s) THEN AddrOfName(s) ELSE IntOf[s]

\* C12: a set command with a resolving target and a numeric value issues exactly
\* one write, of that value to the resolved address, and no read
C12_SetWritesOnce ==
  (action = "set" /\ pc # "start" /\ Len(action_params) = 2
     /\ Resolves(action_params[1]) /\ action_params[2] \in DOMAIN IntOf)
  => /\ Len(writes) = 1
     /\ writes[1].addr = TargetAddr(action_params[1])
     /\ writes[1].value = IntOf[action_params[2]]
     /\ reads = <<>>

C12_Witness ==
  /\ action = "set" /\ pc = "done"
  /\ action_params = << "0x3203", "120" >>
  /\ Len(writes) = 1 /\ writes[1].addr = 12803 /\ writes[1].value = 120
  /\ reads = <<>>

\* C13: a set command whose target is neither a catalog name nor a number
\* writes nothing, reads nothing and ends with a non-zero exit status (an
\* explicit exit(1) or an uncaught exception)
C13_UnresolvedSetFails ==
  (action = "set" /\ pc # "start" /\ Len(action_params) = 2
     /\ ~Resolves(action_params[1]))
  => /\ writes = <<>>
     /\ reads = <<>>
     /\ pc \in {"exit1", "crashed"}

C13_Witness ==
  /\ action = "set" /\ pc = "exit1"
  /\ action_params = << "bogus", "120" >>
  /\ writes = <<>> /\ reads = <<>>
  /\ out = << Message("error, register not found") >>

\* the process has ended
Stopped == pc \in {"done", "crashed", "exit1"}

\* C14 as stated: a get with resolving targets and --repeat N ends only after N
\* whole rounds when N > 0 (one round without --repeat), and does not end by
\* itself when N < 0; the rounds completed are N - repeat
C14_GetRunsAllRounds ==
  (action = "get" /\ action_params # <<>>
     /\ \A j \in 1..Len(action_params) : Resolves(action_params[j]))
  => LET n == IF arg_repeat.set THEN arg_repeat.val ELSE 1
     IN /\ n > 0 => (Stopped => (pc = "done" /\ repeat = 0))
        /\ n < 0 => ~Stopped

\* C15: the words assemble to the sum of words[j] * 65536^(j-1), the first word
\* being the low 16 bits; one word is returned as it is; print_value and the
\* monitor loop assemble to the same value
C15_AssembleIsWordSum ==
  /\ pvalue # NoneVal => pvalue = WordSum(words)
  /\ mvalue # NoneVal => mvalue = WordSum(words)
  /\ (pvalue # NoneVal /\ Len(words) = 1) => pvalue = words[1]
  /\ (pvalue # NoneVal /\ Len(words) = 2) => pvalue = words[1] + words[2] * 65536
  /\ (pvalue # NoneVal /\ mvalue # NoneVal) => pvalue = mvalue

C15_Witness ==
  /\ words = << 4660, 1 >>
  /\ pvalue = 70196
  /\ mvalue = 70196

\* the catalog entry at address a has a values map with the key v
HasLabel(a, v) ==
  /\ LookupAddr(a) # 0
  /\ Quint24DCRegisters[LookupAddr(a)].vkind = "dict"
  /\ v \in DOMAIN Quint24DCRegisters[LookupAddr(a)].values

\* the line "<name>: <label>" of the entry at address a for the key v
IsLabelLine(line, a, v) ==
  /\ line.form = "label"
  /\ line.name = Quint24DCRegisters[LookupAddr(a)].name
  /\ line.label = Quint24DCRegisters[LookupAddr(a)].values[v]

\* C16: whenever the value of a catalog entry is a key of the entry's values map,
\* the line printed is the mapped label, whatever the entry's type: in dump
\* (without --raw), dumpall and get for the value just read, in monitor for
\* every value reported
C16_ValueMapDecides ==
  /\ (action \in {"dump", "dumpall", "get"} /\ ~(action = "dump" /\ arg_raw)
        /\ reads # <<>> /\ reads[1].ok = "ok"
        /\ HasLabel(reads[1].addr, WordSum(reads[1].regs)))
     => (out # <<>> /\ IsLabelLine(out[1], reads[1].addr, WordSum(reads[1].regs)))
  /\ MonitorWalked
     => \A j \in 1..Len(out) :
          HasLabel(out[j].addr, NewValue(out[j].addr))
          => IsLabelLine(out[j], out[j].addr, NewValue(out[j].addr))

C16_Witness ==
  /\ action = "get" /\ action_params = << "OUT_LX_Remote" >>
  /\ reads = << [addr |-> 29696, count |-> 1, ok |-> "ok", regs |-> << 0 >>] >>
  /\ Len(out) = 1 /\ out[1].name = "OUT_LX_Remote" /\ out[1].form = "label"
  /\ out[1].label = "on"

\* an int entry whose values map has 65535: the label, not the number and unit
C16_WitnessInt ==
  /\ action = "get" /\ action_params = << "OUT_LUI_SocStateOfCharge" >>
  /\ reads # <<>> /\ reads[1].regs = << 65535 >>
  /\ Len(out) = 1 /\ out[1].label = "not initialized"

\* a change of OUT_LX_Remote reported by monitor
C16_WitnessMonitor ==
  /\ MonitorWalked /\ ~first
  /\ \E j \in 1..Len(out) : out[j].addr = 29696 /\ out[j].label = "off"

\* ------------------------------------------------------------------------
\* Properties of the monitor walk
\* ------------------------------------------------------------------------

\* the addresses strictly inside the span of a catalog entry that has a length
Interior ==
  UNION { (Quint24DCRegisters[k].addr + 1)
            ..(Quint24DCRegisters[k].addr + Quint24DCRegisters[k].length - 1) :
          k \in { n \in 1..NumRegs : Quint24DCRegisters[n].haslength } }

\* the lines that report address a (the lines " - <bit>" under them apart)
Reports(a) == { j \in 1..Len(out) : out[j].addr = a /\ out[j].form # "bit" }

\* index in the buffer of the second range of the low word of OUT_LUDW_ActualAlarm
IdxAlarm == 29840 - 29696 + 1

\* C17: in monitor no address strictly inside a catalog entry's span is stored
\* in prior or reported, whether the entry is skipped or not; a change of the
\* high word alone of the two-word OUT_LUDW_ActualAlarm, with no threshold
\* set, is reported once, under the entry's address with the assembled value
C17_OneValuePerEntry ==
  action = "monitor"
  => /\ \A a \in Interior : a \notin DOMAIN prior /\ a \notin DOMAIN before /\ ~Reported(a)
     /\ (MonitorWalked /\ ~first /\ rng = 2 /\ 29840 \notin SkipSet
           /\ ~min_change_rel.set /\ ~min_change_abs.set
           /\ OldValue(29840) # NoneVal
           /\ OldValue(29840) % 65536 = values[IdxAlarm]
           /\ OldValue(29840) \div 65536 # values[IdxAlarm + 1])
        => /\ Cardinality(Reports(29840)) = 1
           /\ \A j \in Reports(29840) :
                out[j].num = values[IdxAlarm] + 65536 * values[IdxAlarm + 1]

C17_Witness ==
  /\ MonitorWalked /\ ~first /\ rng = 2
  /\ ~min_change_rel.set /\ ~min_change_abs.set
  /\ OldValue(29840) = 1
  /\ values[IdxAlarm] = 1 /\ values[IdxAlarm + 1] = 1
  /\ prior[29840] = 65537 /\ 29841 \notin DOMAIN prior
  /\ Cardinality(Reports(29840)) = 1 /\ ~Reported(29841)
  /\ \E j \in Reports(29840) : out[j].num = 65537

\* the calls of the last get step that reached the transport
TransportReads == { r \in 1..Len(reads) : reads[r].ok # "raised" }

\* C18 as stated: handling one resolving target in get causes exactly one
\* transport read, whether or not that read succeeds
C18_GetReadsOnce ==
  (action = "get" /\ param > 1 /\ Resolves(action_params[param - 1]))
  => Cardinality(TransportReads) = 1

\* the range being read or just walked
Range == Quint24DCMonitorRegisters[rng]

\* C19: in monitor every successful read brings 16 words and every range is a
\* multiple of 16 words long, so the buffer walked has exactly end - start
\* words; in every cycle after the first each compared address has a prior
\* from the cycle before, and the walk never ends in an exception
C19_PriorAlwaysDefined ==
  action = "monitor"
  => /\ \A r \in 1..Len(Quint24DCMonitorRegisters) :
          (Quint24DCMonitorRegisters[r].end - Quint24DCMonitorRegisters[r].start) % 16 = 0
     /\ \A r \in 1..Len(reads) : reads[r].ok = "ok" => Len(reads[r].regs) = 16
     /\ Len(values) <= Range.end - Range.start
     /\ MonitorWalked => Len(values) = Range.end - Range.start
     /\ (MonitorWalked /\ ~first)
        => \A a \in Compared : a \in DOMAIN before /\ before[a] # NoneVal
     /\ (pc = "crashed" /\ skip_addr # <<>>) => (reads # <<>> /\ reads[1].ok = "none")

C19_Witness ==
  /\ MonitorWalked /\ ~first /\ rng = 2
  /\ min_change_abs.set /\ min_change_rel.set
  /\ Len(values) = 160
  /\ Compared # {}
  /\ \A a \in Compared : a \in DOMAIN before
  /\ before[29700] # values[Idx7404]

\* C20: with an absolute threshold T the baseline of every compared address is
\* the sample of the walk before, and an address whose sample differs from it
\* by at most T is not reported, whatever value was reported for it last
C20_BaselineIsPrecedingSample ==
  (MonitorWalked /\ ~first /\ min_change_abs.set)
  => \A a \in Compared :
       /\ a \in DOMAIN sampled_before
       /\ OldValue(a) = sampled_before[a]
       /\ Abs(NewValue(a) - sampled_before[a]) * min_change_abs.den <= min_change_abs.num
          => ~Reported(a)

\* reported at 100, then sampled at 106 and at 111 with T = 10: 11 away from
\* the value reported, 5 from the sample before, and not reported
C20_Witness ==
  /\ MonitorWalked /\ ~first /\ rng = 2
  /\ min_change_abs = Threshold(10, 1) /\ ~min_change_rel.set
  /\ 29700 \in Compared
  /\ 29700 \in DOMAIN shown /\ shown[29700] = 100
  /\ sampled_before[29700] = 106
  /\ values[Idx7404] = 111
  /\ ~Reported(29700)

====
